---------------------------- MODULE Spec2Model ----------------------------
(***************************************************************************)
(* Cheque reconciliation (app/services/reconciliation.py) and the tally    *)
(* service that stores its result (app/services/tally.py), with the        *)
(* upload and session-deletion handlers that change what a run reads.      *)
(*                                                                         *)
(* Strings are sequences of one-character strings, so that strip(),        *)
(* upper() and strptime() are computed.  Python's None is the sequence     *)
(* None, which no string equals.  Amounts are integers in units of         *)
(* 0.000001 currency units (100.00 is 100000000).  Dates are proleptic     *)
(* Gregorian ordinals, as date.toordinal().                                *)
(***************************************************************************)
EXTENDS Integers, Sequences, FiniteSets, Bags, TLC

VARIABLES
    \* ---- a call of reconcile_cheques on given lists (SpecReconcile) ----
    company_expenses,   \* argument: list of CompanyExpense
    bank_transactions,  \* argument: list of BankTransaction
    rc,                 \* what the call did: not called, returned, raised
    \* ---- a call of parse_date on a given string (SpecDates) ----
    date_str,           \* argument: Optional[str]
    parsed,             \* what the call returned, and on which day
    \* ---- a call of extract_company_cheques / extract_bank_cheques ----
    chunks,             \* per chunk, what chain.invoke does on it
    ex,                 \* the loop: position, all_cheques, all_notes, result
    \* ---- the database and the requests in flight (Spec) ----
    sessions,           \* table sessions: set of rows [id, user_id]
    used_ids,           \* uuid4 values already drawn
    company_rows,       \* table company_expenses, per session, in id order
    bank_rows,          \* table bank_transactions, per session, in id order
    tally_results,      \* table tally_results: set of rows
    next_tally_id,      \* the serial primary key of tally_results
    now,                \* the clock: days since BaseDay
    req,                \* per request slot: position and locals of a run
    response            \* per request slot: the last HTTP response

vars == <<company_expenses, bank_transactions, rc, date_str, parsed,
          chunks, ex, sessions, used_ids,
          company_rows, bank_rows, tally_results, next_tally_id, now,
          req, response>>

callVars == <<company_expenses, bank_transactions, rc, date_str, parsed,
              chunks, ex>>
dbVars == <<sessions, used_ids, company_rows, bank_rows, tally_results,
            next_tally_id, now, req, response>>

---------------------------------------------------------------------------
(* Values *)

None == <<"<None>">>

MaxOf(a, b) == IF a >= b THEN a ELSE b
Abs(x) == IF x < 0 THEN -x ELSE x

\* "not s" for an Optional[str]
Falsy(s) == s = None \/ s = <<>>

\* "x or None"
OrNone(s) == IF Falsy(s) THEN None ELSE s

---------------------------------------------------------------------------
(* str.strip() and str.upper() *)

LowerLetters == <<"a", "b", "c", "h", "q">>
UpperLetters == <<"A", "B", "C", "H", "Q">>
Whitespace == {" ", "\t", "\n"}

UpperChar(c) ==
    IF \E i \in 1..Len(LowerLetters) : LowerLetters[i] = c
    THEN UpperLetters[CHOOSE i \in 1..Len(LowerLetters) : LowerLetters[i] = c]
    ELSE c

upper(s) == [i \in 1..Len(s) |-> UpperChar(s[i])]

RECURSIVE lstrip(_)
lstrip(s) ==
    IF s # <<>> /\ Head(s) \in Whitespace THEN lstrip(Tail(s)) ELSE s

RECURSIVE rstrip(_)
rstrip(s) ==
    IF s # <<>> /\ s[Len(s)] \in Whitespace
    THEN rstrip(SubSeq(s, 1, Len(s) - 1))
    ELSE s

\* strip that removes one character at most from each end
strip_Once(s) ==
    LET l == IF s # <<>> /\ Head(s) \in Whitespace THEN Tail(s) ELSE s
    IN  IF l # <<>> /\ l[Len(l)] \in Whitespace
        THEN SubSeq(l, 1, Len(l) - 1)
        ELSE l

strip(s) == rstrip(lstrip(s))

\* NormalizeKey that keeps the case
NormalizeKey_NoUpper(cheque_number) == strip(cheque_number)

\* cheque_number.strip().upper()
NormalizeKey(cheque_number) == upper(strip(cheque_number))


---------------------------------------------------------------------------
(* datetime.strptime(...).date() for the three formats of parse_date *)

Digits == <<"0", "1", "2", "3", "4", "5", "6", "7", "8", "9">>

IsDigit(c) == \E i \in 1..10 : Digits[i] = c
DigitVal(c) == (CHOOSE i \in 1..10 : Digits[i] = c) - 1

RECURSIVE NumVal(_)
NumVal(f) ==
    IF f = <<>> THEN 0
    ELSE 10 * NumVal(SubSeq(f, 1, Len(f) - 1)) + DigitVal(f[Len(f)])

\* the fields of s between occurrences of sep
RECURSIVE SplitOn(_, _)
SplitOn(s, sep) ==
    IF \E i \in 1..Len(s) : s[i] = sep
    THEN LET i == CHOOSE k \in 1..Len(s) :
                      s[k] = sep /\ \A j \in 1..(k - 1) : s[j] # sep
         IN  <<SubSeq(s, 1, i - 1)>> \o SplitOn(SubSeq(s, i + 1, Len(s)), sep)
    ELSE <<s>>

IsLeap(y) == (y % 4 = 0 /\ y % 100 # 0) \/ y % 400 = 0

DaysInMonth(y, m) ==
    IF m = 2 THEN (IF IsLeap(y) THEN 29 ELSE 28)
    ELSE IF m \in {4, 6, 9, 11} THEN 30 ELSE 31

RECURSIVE DaysBeforeMonth(_, _)
DaysBeforeMonth(y, m) ==
    IF m = 1 THEN 0 ELSE DaysBeforeMonth(y, m - 1) + DaysInMonth(y, m - 1)

\* date(y, m, d).toordinal()
ToOrdinal(y, m, d) ==
    LET p == y - 1
    IN  365 * p + (p \div 4) - (p \div 100) + (p \div 400)
        + DaysBeforeMonth(y, m) + d

ValueError == -1

\* %Y is four digits; %m and %d are one or two digits, in range; %d also
\* takes a space and a digit; the whole string must be consumed; the date
\* must exist.
FieldsToDate(yf, mf, df) ==
    IF /\ Len(yf) = 4 /\ \A i \in 1..4 : IsDigit(yf[i])
       /\ Len(mf) \in {1, 2} /\ \A i \in 1..Len(mf) : IsDigit(mf[i])
       /\ \/ Len(df) \in {1, 2} /\ \A i \in 1..Len(df) : IsDigit(df[i])
          \/ Len(df) = 2 /\ df[1] = " " /\ IsDigit(df[2])
    THEN LET y == NumVal(yf)
             m == NumVal(mf)
             d == IF df[1] = " " THEN DigitVal(df[2]) ELSE NumVal(df)
         IN  IF y >= 1 /\ m \in 1..12 /\ d >= 1 /\ d <= DaysInMonth(y, m)
             THEN ToOrdinal(y, m, d)
             ELSE ValueError
    ELSE ValueError

\* fmt is "%Y-%m-%d", "%d-%m-%Y" or "%d/%m/%Y", given by its separator and
\* whether the year comes first
strptime(s, sep, yearFirst) ==
    LET f == SplitOn(s, sep)
    IN  IF Len(f) # 3 THEN ValueError
        ELSE IF yearFirst THEN FieldsToDate(f[1], f[2], f[3])
        ELSE FieldsToDate(f[3], f[2], f[1])

\* parse_date that gives up on a string of no format
parse_date_NoFallback(str, today) ==
    IF Falsy(str) THEN today
    ELSE IF strptime(str, "-", TRUE) # ValueError
         THEN strptime(str, "-", TRUE)
    ELSE IF strptime(str, "-", FALSE) # ValueError
         THEN strptime(str, "-", FALSE)
    ELSE strptime(str, "/", FALSE)

parse_date(str, today) ==
    IF Falsy(str) THEN today
    ELSE IF strptime(str, "-", TRUE) # ValueError
         THEN strptime(str, "-", TRUE)
    ELSE IF strptime(str, "-", FALSE) # ValueError
         THEN strptime(str, "-", FALSE)
    ELSE IF strptime(str, "/", FALSE) # ValueError
         THEN strptime(str, "/", FALSE)
    ELSE today

\* calculate_days_outstanding without the clamp at 0
calculate_days_outstanding_Unclamped(issue_date_str, today) ==
    IF Falsy(issue_date_str) THEN 0
    ELSE today - parse_date(issue_date_str, today)

calculate_days_outstanding(issue_date_str, today) ==
    IF Falsy(issue_date_str) THEN 0
    ELSE MaxOf(0, today - parse_date(issue_date_str, today))


---------------------------------------------------------------------------
(* Pydantic schemas of the report entries (app/schemas/cheque.py) *)

\* a field annotated "str" rejects None
ValidStr(x) == x # None

\* None in a column of amounts, which are integers here
NoAmount == -1

\* a field annotated "float" rejects None
ValidFloat(x) == x # NoAmount

\* CashedCheque(...): the entry, or a ValidationError
CashedChequeValid(e) ==
    /\ ValidStr(e.company_cheque_number) /\ ValidStr(e.bank_cheque_number)
    /\ ValidStr(e.payee_name) /\ ValidFloat(e.amount)
    /\ ValidStr(e.issue_date) /\ ValidStr(e.clearing_date)

\* UncashedCheque(...): the entry, or a ValidationError
UncashedChequeValid(e) ==
    /\ ValidStr(e.cheque_number) /\ ValidStr(e.payee_name)
    /\ ValidFloat(e.amount) /\ ValidStr(e.issue_date)

---------------------------------------------------------------------------
(* reconcile_cheques *)

\* 0.01 currency units
AMOUNT_TOLERANCE == 10000

\* AmountsMatch with the bound included
AmountsMatch_Inclusive(company_amount, bank_amount) ==
    Abs(company_amount - bank_amount) <= AMOUNT_TOLERANCE

AmountsMatch(company_amount, bank_amount) ==
    Abs(company_amount - bank_amount) < AMOUNT_TOLERANCE

EmptyIndex == [k \in {} |-> 0]

\* BuildIndex that keeps the first record of a key
RECURSIVE BuildIndex_FirstWins(_)
BuildIndex_FirstWins(bts) ==
    IF bts = <<>> THEN [raised |-> FALSE, index |-> EmptyIndex]
    ELSE LET prev == BuildIndex_FirstWins(SubSeq(bts, 1, Len(bts) - 1))
             bt == bts[Len(bts)]
             key == NormalizeKey(bt.cheque_number)
         IN  IF prev.raised \/ bt.cheque_number = None
             THEN [raised |-> TRUE, index |-> EmptyIndex]
             ELSE [raised |-> FALSE,
                   index |-> [k \in DOMAIN prev.index \cup {key} |->
                                 IF k \in DOMAIN prev.index
                                 THEN prev.index[k] ELSE bt]]

\* the loop "for bt in bank_transactions": a later record replaces an
\* earlier one under the same key; a None cheque number has no strip()
RECURSIVE BuildIndex(_)
BuildIndex(bts) ==
    IF bts = <<>> THEN [raised |-> FALSE, index |-> EmptyIndex]
    ELSE LET prev == BuildIndex(SubSeq(bts, 1, Len(bts) - 1))
             bt == bts[Len(bts)]
             key == NormalizeKey(bt.cheque_number)
         IN  IF prev.raised \/ bt.cheque_number = None
             THEN [raised |-> TRUE, index |-> EmptyIndex]
             ELSE [raised |-> FALSE,
                   index |-> [k \in DOMAIN prev.index \cup {key} |->
                                 IF k = key THEN bt ELSE prev.index[k]]]

\* OnCashed with the entry put at the front of the list
OnCashed_Prepend(st, ce, bt, key) ==
    LET e == [company_cheque_number |-> ce.cheque_number,
              bank_cheque_number |-> bt.cheque_number,
              payee_name |-> ce.payee_name,
              amount |-> ce.amount,
              issue_date |-> OrNone(ce.issue_date),
              clearing_date |-> bt.clearing_date]
    IN  IF ~CashedChequeValid(e) THEN [st EXCEPT !.raised = TRUE]
        ELSE [st EXCEPT !.cashed = <<e>> \o @,
                        !.unmatched_bank = @ \ {key}]

\* OnCashed that puts the key in place of the two cheque numbers
OnCashed_NormalizedNumbers(st, ce, bt, key) ==
    LET e == [company_cheque_number |-> key,
              bank_cheque_number |-> key,
              payee_name |-> ce.payee_name,
              amount |-> ce.amount,
              issue_date |-> OrNone(ce.issue_date),
              clearing_date |-> bt.clearing_date]
    IN  IF ~CashedChequeValid(e) THEN [st EXCEPT !.raised = TRUE]
        ELSE [st EXCEPT !.cashed = Append(@, e),
                        !.unmatched_bank = @ \ {key}]

\* the branch "amount matches": append to cashed, discard the key from
\* unmatched_bank
OnCashed(st, ce, bt, key) ==
    LET e == [company_cheque_number |-> ce.cheque_number,
              bank_cheque_number |-> bt.cheque_number,
              payee_name |-> ce.payee_name,
              amount |-> ce.amount,
              issue_date |-> OrNone(ce.issue_date),
              clearing_date |-> bt.clearing_date]
    IN  IF ~CashedChequeValid(e) THEN [st EXCEPT !.raised = TRUE]
        ELSE [st EXCEPT !.cashed = Append(@, e),
                        !.unmatched_bank = @ \ {key}]

UncashedEntry(ce, today) ==
    [cheque_number |-> ce.cheque_number,
     payee_name |-> ce.payee_name,
     amount |-> ce.amount,
     issue_date |-> OrNone(ce.issue_date),
     days_outstanding |-> calculate_days_outstanding(ce.issue_date, today)]

\* OnMismatch that also discards the key from unmatched_bank
OnMismatch_DiscardsBank(st, ce, key, today) ==
    LET e == UncashedEntry(ce, today)
    IN  IF ~UncashedChequeValid(e) THEN [st EXCEPT !.raised = TRUE]
        ELSE [st EXCEPT !.pending = Append(@, e),
                        !.unmatched_company = @ \cup {key},
                        !.unmatched_bank = @ \ {key}]

\* OnMismatch that forgets the key in unmatched_company
OnMismatch_NoCompanyKey(st, ce, key, today) ==
    LET e == UncashedEntry(ce, today)
    IN  IF ~UncashedChequeValid(e) THEN [st EXCEPT !.raised = TRUE]
        ELSE [st EXCEPT !.pending = Append(@, e)]

\* the branch "amount mismatch": append to uncashed, add the key to
\* unmatched_company; unmatched_bank is left alone
OnMismatch(st, ce, key, today) ==
    LET e == UncashedEntry(ce, today)
    IN  IF ~UncashedChequeValid(e) THEN [st EXCEPT !.raised = TRUE]
        ELSE [st EXCEPT !.pending = Append(@, e),
                        !.unmatched_company = @ \cup {key}]

\* OnAbsent that adds the cheque number as written, not the key
OnAbsent_RawKey(st, ce, key, today) ==
    LET e == UncashedEntry(ce, today)
    IN  IF ~UncashedChequeValid(e) THEN [st EXCEPT !.raised = TRUE]
        ELSE [st EXCEPT !.pending = Append(@, e),
                        !.unmatched_company = @ \cup {ce.cheque_number}]

\* the branch "no matching bank transaction"
OnAbsent(st, ce, key, today) ==
    LET e == UncashedEntry(ce, today)
    IN  IF ~UncashedChequeValid(e) THEN [st EXCEPT !.raised = TRUE]
        ELSE [st EXCEPT !.pending = Append(@, e),
                        !.unmatched_company = @ \cup {key}]

\* ProcessCompany where a bank record serves one match only
ProcessCompany_ConsumesBank(st, ce, index, today) ==
    IF st.raised \/ ce.cheque_number = None
    THEN [st EXCEPT !.raised = TRUE]
    ELSE LET cheque_key == NormalizeKey(ce.cheque_number)
         IN  IF cheque_key \in DOMAIN index /\ cheque_key \in st.unmatched_bank
             THEN IF \/ ce.amount = NoAmount
                     \/ index[cheque_key].amount = NoAmount
                  THEN [st EXCEPT !.raised = TRUE]
                  ELSE IF AmountsMatch(ce.amount, index[cheque_key].amount)
                  THEN OnCashed(st, ce, index[cheque_key], cheque_key)
                  ELSE OnMismatch(st, ce, cheque_key, today)
             ELSE OnAbsent(st, ce, cheque_key, today)

\* one iteration of "for company_expense in company_expenses"; a None
\* cheque number has no strip(), and None cannot be subtracted
ProcessCompany(st, ce, index, today) ==
    IF st.raised \/ ce.cheque_number = None
    THEN [st EXCEPT !.raised = TRUE]
    ELSE LET cheque_key == NormalizeKey(ce.cheque_number)
         IN  IF cheque_key \in DOMAIN index
             THEN IF \/ ce.amount = NoAmount
                     \/ index[cheque_key].amount = NoAmount
                  THEN [st EXCEPT !.raised = TRUE]
                  ELSE IF AmountsMatch(ce.amount, index[cheque_key].amount)
                  THEN OnCashed(st, ce, index[cheque_key], cheque_key)
                  ELSE OnMismatch(st, ce, cheque_key, today)
             ELSE OnAbsent(st, ce, cheque_key, today)

RECURSIVE CompanyLoop(_, _, _)
CompanyLoop(ces, index, today) ==
    IF ces = <<>>
    THEN [raised |-> FALSE, cashed |-> <<>>, pending |-> <<>>,
          unmatched_bank |-> DOMAIN index, unmatched_company |-> {}]
    ELSE ProcessCompany(CompanyLoop(SubSeq(ces, 1, Len(ces) - 1), index, today),
                        ces[Len(ces)], index, today)

UnmatchedInfo(unmatched_bank, unmatched_company) ==
    [unmatched_bank_cheques |-> unmatched_bank,
     unmatched_company_cheques |-> unmatched_company,
     bank_cheques_without_company_record |-> Cardinality(unmatched_bank),
     company_cheques_without_bank_clearance |-> Cardinality(unmatched_company)]

Raised == [status |-> "raised", cashed |-> <<>>, pending |-> <<>>,
           unmatched_info |-> UnmatchedInfo({}, {})]

\* the value of reconcile_cheques(ces, bts) on the day today, or Raised.
\* The two lists of keys in unmatched_info are list(set): their order is
\* the set's iteration order, and they are kept as sets here.
reconcile_cheques(ces, bts, today) ==
    LET bx == BuildIndex(bts)
        st == CompanyLoop(ces, bx.index, today)
    IN  IF bx.raised \/ st.raised THEN Raised
        ELSE [status |-> "returned",
              cashed |-> st.cashed,
              pending |-> st.pending,
              unmatched_info |-> UnmatchedInfo(st.unmatched_bank,
                                               st.unmatched_company)]

RECURSIVE SumAmounts(_)
SumAmounts(cheques) ==
    IF cheques = <<>> THEN 0
    ELSE cheques[1].amount + SumAmounts(Tail(cheques))

\* calculate_totals with the two sums the wrong way round
calculate_totals_Swapped(cashed_cheques, uncashed_cheques) ==
    <<SumAmounts(uncashed_cheques), SumAmounts(cashed_cheques)>>

calculate_totals(cashed_cheques, uncashed_cheques) ==
    <<SumAmounts(cashed_cheques), SumAmounts(uncashed_cheques)>>


---------------------------------------------------------------------------
(* Inputs *)

MaxCompany == 2
MaxBank == 2

CHQ1 == <<"C", "H", "Q", "1">>
chq1 == <<" ", "c", "h", "q", "1", " ">>
CHQ2 == <<"C", "H", "Q", "2">>
Alice == <<"A", "l", "i", "c", "e">>
Jan05 == <<"2", "0", "2", "4", "-", "0", "1", "-", "0", "5">>
Jan10 == <<"2", "0", "2", "4", "-", "0", "1", "-", "1", "0">>

ChequeNumbers == {CHQ1, chq1, CHQ2}
CompanyAmounts == {100000000, 100000000 + AMOUNT_TOLERANCE}
BankAmounts == {100000000, 100000001}
IssueDates == {Jan10, None}

CompanyRecords ==
    [cheque_number : ChequeNumbers, payee_name : {Alice},
     amount : CompanyAmounts, issue_date : IssueDates]

BankRecords ==
    [cheque_number : ChequeNumbers, amount : BankAmounts,
     clearing_date : {Jan05}]

SeqsUpTo(S, n) == UNION {[1..k -> S] : k \in 0..n}

\* datetime.now().date() when the clock shows day 0
BaseDay == ToOrdinal(2024, 1, 20)
Today(t) == BaseDay + t

---------------------------------------------------------------------------
(* The database, the clock and the request slots *)

SessionIds == {"s1"}
Users == {"u1", "u2"}
\* the users that create sessions; the other one only asks for sessions
\* that are not its own
Owners == {"u1"}
RequestSlots == {"r1", "r2"}

MaxCompanyRows == 1
MaxBankRows == 2
MaxNow == 1

\* what the extraction of an upload can yield for the two tables
UploadedCompany ==
    [cheque_number : {CHQ1}, payee_name : {Alice},
     amount : {100000000}, issue_date : IssueDates]
UploadedBank ==
    [cheque_number : {chq1}, amount : {100000000, 200000000},
     clearing_date : {Jan05}]

NoReport ==
    [session_id |-> "", total_cashed_cheques |-> 0,
     total_uncashed_cheques |-> 0, total_cashed_amount |-> 0,
     total_uncashed_amount |-> 0, cashed_cheques |-> <<>>,
     uncashed_cheques |-> <<>>, created_at |-> 0]

NoResponse == [kind |-> "none", status |-> 0, detail |-> "", report |-> NoReport]

HttpError(kind, status, detail) ==
    [kind |-> kind, status |-> status, detail |-> detail, report |-> NoReport]

Idle ==
    [pc |-> "idle", session_id |-> "", company |-> <<>>,
     cashed |-> <<>>, pending |-> <<>>,
     unmatched_info |-> UnmatchedInfo({}, {}), existing |-> 0]

InitDb ==
    /\ sessions = {}
    /\ used_ids = {}
    /\ company_rows = [s \in SessionIds |-> <<>>]
    /\ bank_rows = [s \in SessionIds |-> <<>>]
    /\ tally_results = {}
    /\ next_tally_id = 1
    /\ now = 0
    /\ req = [p \in RequestSlots |-> Idle]
    /\ response = [p \in RequestSlots |-> NoResponse]

NotParsed == [status |-> "none", value |-> 0, today |-> 0]

NoExtraction == chunks = <<>> /\ ex = [pc |-> "none"]

---------------------------------------------------------------------------
(* SpecReconcile: one call of reconcile_cheques on arbitrary lists *)

NotCalled == [status |-> "none", cashed |-> <<>>, pending |-> <<>>,
              unmatched_info |-> UnmatchedInfo({}, {})]

InitReconcile ==
    /\ company_expenses \in SeqsUpTo(CompanyRecords, MaxCompany)
    /\ bank_transactions \in SeqsUpTo(BankRecords, MaxBank)
    /\ rc = NotCalled
    /\ date_str = None /\ parsed = NotParsed
    /\ InitDb
    /\ NoExtraction

\* CallReconcile that takes the matched bank records out of its input
CallReconcile_ConsumesBank ==
    /\ rc.status = "none"
    /\ rc' = reconcile_cheques(company_expenses, bank_transactions, Today(now))
    /\ bank_transactions' =
          SelectSeq(bank_transactions,
                    LAMBDA bt : \A k \in DOMAIN rc'.cashed :
                        rc'.cashed[k].bank_cheque_number # bt.cheque_number)
    /\ UNCHANGED <<company_expenses, date_str, parsed, chunks, ex>>
    /\ UNCHANGED dbVars

CallReconcile ==
    /\ rc.status = "none"
    /\ rc' = reconcile_cheques(company_expenses, bank_transactions, Today(now))
    /\ UNCHANGED <<company_expenses, bank_transactions, date_str, parsed, chunks, ex>>
    /\ UNCHANGED dbVars

NextReconcile == CallReconcile

SpecReconcile == InitReconcile /\ [][NextReconcile]_vars

---------------------------------------------------------------------------
(* SpecPure: two calls of reconcile_cheques, one after the other, on the
   same lists on the same day; rc keeps the results of both *)

CallReconcileAgain ==
    /\ rc.status \in {"returned", "raised"}
    /\ rc' = [status |-> "again", first |-> rc,
              second |-> reconcile_cheques(company_expenses,
                                           bank_transactions, Today(now))]
    /\ UNCHANGED <<company_expenses, bank_transactions, date_str, parsed, chunks, ex>>
    /\ UNCHANGED dbVars

NextPure == CallReconcile \/ CallReconcileAgain

SpecPure == InitReconcile /\ [][NextPure]_vars

---------------------------------------------------------------------------
(* SpecKeys: one call of reconcile_cheques on one company record and one
   bank record of the same amount, with arbitrary cheque numbers *)

MaxKeyLen == 3

KeyAlphabet == {" ", "c", "C", "0", "7"}

\* the strings over KeyAlphabet of length up to MaxKeyLen
KeyStrings == SeqsUpTo(KeyAlphabet, MaxKeyLen)

InitKeys ==
    /\ \E a \in KeyStrings :
          company_expenses = <<[cheque_number |-> a, payee_name |-> Alice,
                                amount |-> 100000000, issue_date |-> Jan10]>>
    /\ \E b \in KeyStrings :
          bank_transactions = <<[cheque_number |-> b, amount |-> 100000000,
                                 clearing_date |-> Jan05]>>
    /\ rc = NotCalled
    /\ date_str = None /\ parsed = NotParsed
    /\ InitDb
    /\ NoExtraction

NextKeys == CallReconcile

SpecKeys == InitKeys /\ [][NextKeys]_vars

---------------------------------------------------------------------------
(* SpecMalformed: one call of reconcile_cheques on rows whose nullable
   columns cheque_number and amount may hold None *)

MaxMalformed == 2

MalformedCompany ==
    [cheque_number : {CHQ1, None}, payee_name : {Alice},
     amount : {100000000, NoAmount}, issue_date : {Jan10}]

MalformedBank ==
    [cheque_number : {CHQ1, CHQ2, None}, amount : {100000000, NoAmount},
     clearing_date : {Jan05}]

InitMalformed ==
    /\ company_expenses \in SeqsUpTo(MalformedCompany, MaxMalformed)
    /\ bank_transactions \in SeqsUpTo(MalformedBank, MaxMalformed)
    /\ rc = NotCalled
    /\ date_str = None /\ parsed = NotParsed
    /\ InitDb
    /\ NoExtraction

NextMalformed == CallReconcile

SpecMalformed == InitMalformed /\ [][NextMalformed]_vars


---------------------------------------------------------------------------
(* json.dumps([c.dict() for c in ...]) and json.loads: an object is the list
   of its (key, value) pairs in field order, and is read back by key *)

DumpCashed(c) ==
    <<<<"company_cheque_number", c.company_cheque_number>>,
      <<"bank_cheque_number", c.bank_cheque_number>>,
      <<"payee_name", c.payee_name>>,
      <<"amount", c.amount>>,
      <<"issue_date", c.issue_date>>,
      <<"clearing_date", c.clearing_date>>>>

DumpUncashed(u) ==
    <<<<"cheque_number", u.cheque_number>>,
      <<"payee_name", u.payee_name>>,
      <<"amount", u.amount>>,
      <<"issue_date", u.issue_date>>,
      <<"days_outstanding", u.days_outstanding>>>>

json_dumps_cashed(cashed_cheques) ==
    [i \in DOMAIN cashed_cheques |-> DumpCashed(cashed_cheques[i])]
json_dumps_uncashed(uncashed_cheques) ==
    [i \in DOMAIN uncashed_cheques |-> DumpUncashed(uncashed_cheques[i])]

Member(obj, k) == obj[CHOOSE j \in DOMAIN obj : obj[j][1] = k][2]

\* [CashedCheque(**c) for c in json.loads(text)]
json_loads_cashed(text) ==
    [i \in DOMAIN text |->
        [company_cheque_number |-> Member(text[i], "company_cheque_number"),
         bank_cheque_number |-> Member(text[i], "bank_cheque_number"),
         payee_name |-> Member(text[i], "payee_name"),
         amount |-> Member(text[i], "amount"),
         issue_date |-> Member(text[i], "issue_date"),
         clearing_date |-> Member(text[i], "clearing_date")]]

\* [UncashedCheque(**u) for u in json.loads(text)]
json_loads_uncashed(text) ==
    [i \in DOMAIN text |->
        [cheque_number |-> Member(text[i], "cheque_number"),
         payee_name |-> Member(text[i], "payee_name"),
         amount |-> Member(text[i], "amount"),
         issue_date |-> Member(text[i], "issue_date"),
         days_outstanding |-> Member(text[i], "days_outstanding")]]

generate_tally_report(session_id, cashed_cheques, uncashed_cheques, utcnow) ==
    LET totals == calculate_totals(cashed_cheques, uncashed_cheques)
    IN  [session_id |-> session_id,
         total_cashed_cheques |-> Len(cashed_cheques),
         total_uncashed_cheques |-> Len(uncashed_cheques),
         total_cashed_amount |-> totals[1],
         total_uncashed_amount |-> totals[2],
         cashed_cheques |-> cashed_cheques,
         uncashed_cheques |-> uncashed_cheques,
         created_at |-> utcnow]

---------------------------------------------------------------------------
(* Handlers that change what a run reads *)

Owned(s, u) == [id |-> s, user_id |-> u] \in sessions
Exists(s) == \E u \in Users : Owned(s, u)

\* POST /sessions/create
CreateSession(u) ==
    \E id \in SessionIds \ used_ids :
        /\ sessions' = sessions \cup {[id |-> id, user_id |-> u]}
        /\ used_ids' = used_ids \cup {id}
        /\ UNCHANGED <<company_rows, bank_rows, tally_results,
                       next_tally_id, now, req, response>>
        /\ UNCHANGED callVars

\* DeleteSession without the cascade to the tally
DeleteSession_KeepsTally(s, u) ==
    /\ Owned(s, u)
    /\ sessions' = sessions \ {[id |-> s, user_id |-> u]}
    /\ company_rows' = [company_rows EXCEPT ![s] = <<>>]
    /\ bank_rows' = [bank_rows EXCEPT ![s] = <<>>]
    /\ UNCHANGED <<used_ids, tally_results, next_tally_id, now, req,
                   response>>
    /\ UNCHANGED callVars

\* DELETE /sessions/{session_id}: the session goes with its company
\* expenses, bank transactions and tally (cascade)
DeleteSession(s, u) ==
    /\ Owned(s, u)
    /\ sessions' = sessions \ {[id |-> s, user_id |-> u]}
    /\ company_rows' = [company_rows EXCEPT ![s] = <<>>]
    /\ bank_rows' = [bank_rows EXCEPT ![s] = <<>>]
    /\ tally_results' = {r \in tally_results : r.session_id # s}
    /\ UNCHANGED <<used_ids, next_tally_id, now, req, response>>
    /\ UNCHANGED callVars

\* process_company_expenses: the extracted cheques are inserted and
\* committed together; nothing else is written
UploadCompany(s, u) ==
    /\ Owned(s, u)
    /\ \E cheques \in SeqsUpTo(UploadedCompany,
                               MaxCompanyRows - Len(company_rows[s])) \ {<<>>} :
          company_rows' = [company_rows EXCEPT ![s] = @ \o cheques]
    /\ UNCHANGED <<sessions, used_ids, bank_rows, tally_results,
                   next_tally_id, now, req, response>>
    /\ UNCHANGED callVars

\* UploadBank that also throws away the stored result of the session
UploadBank_Invalidates(s, u) ==
    /\ Owned(s, u)
    /\ \E cheques \in SeqsUpTo(UploadedBank,
                               MaxBankRows - Len(bank_rows[s])) \ {<<>>} :
          bank_rows' = [bank_rows EXCEPT ![s] = @ \o cheques]
    /\ tally_results' = {r \in tally_results : r.session_id # s}
    /\ UNCHANGED <<sessions, used_ids, company_rows,
                   next_tally_id, now, req, response>>
    /\ UNCHANGED callVars

\* process_bank_transactions
UploadBank(s, u) ==
    /\ Owned(s, u)
    /\ \E cheques \in SeqsUpTo(UploadedBank,
                               MaxBankRows - Len(bank_rows[s])) \ {<<>>} :
          bank_rows' = [bank_rows EXCEPT ![s] = @ \o cheques]
    /\ UNCHANGED <<sessions, used_ids, company_rows, tally_results,
                   next_tally_id, now, req, response>>
    /\ UNCHANGED callVars

\* a day passes
Tick ==
    /\ now < MaxNow
    /\ now' = now + 1
    /\ UNCHANGED <<sessions, used_ids, company_rows, bank_rows,
                   tally_results, next_tally_id, req, response>>
    /\ UNCHANGED callVars

---------------------------------------------------------------------------
(* run_tally_reconciliation, one step per statement that reads or writes
   the database; each statement sees what is committed when it runs *)

TalliesOf(s) == {r \in tally_results : r.session_id = s}

Reply(p, r) == response' = [response EXCEPT ![p] = r]
Return(p) == req' = [req EXCEPT ![p] = Idle]

\* RunBegin that tells another user's session from an absent one
RunBegin_TellsForeign(p, s, u) ==
    /\ req[p].pc = "idle"
    /\ IF Owned(s, u)
       THEN /\ req' = [req EXCEPT ![p] = [Idle EXCEPT !.pc = "read_company",
                                                      !.session_id = s]]
            /\ Reply(p, NoResponse)
       ELSE /\ Return(p)
            /\ Reply(p, IF Exists(s)
                        THEN HttpError("run", 403, "Forbidden")
                        ELSE HttpError("run", 404, "Session not found"))
    /\ UNCHANGED <<sessions, used_ids, company_rows, bank_rows,
                   tally_results, next_tally_id, now>>
    /\ UNCHANGED callVars

\* the ownership query; 404 when the session is absent or another user's
RunBegin(p, s, u) ==
    /\ req[p].pc = "idle"
    /\ IF Owned(s, u)
       THEN /\ req' = [req EXCEPT ![p] = [Idle EXCEPT !.pc = "read_company",
                                                      !.session_id = s]]
            /\ Reply(p, NoResponse)
       ELSE /\ Return(p)
            /\ Reply(p, HttpError("run", 404, "Session not found"))
    /\ UNCHANGED <<sessions, used_ids, company_rows, bank_rows,
                   tally_results, next_tally_id, now>>
    /\ UNCHANGED callVars

\* the query of the company expenses of the session
RunReadCompany(p) ==
    /\ req[p].pc = "read_company"
    /\ req' = [req EXCEPT ![p].pc = "read_bank",
                          ![p].company = company_rows[req[p].session_id]]
    /\ UNCHANGED <<sessions, used_ids, company_rows, bank_rows,
                   tally_results, next_tally_id, now, response>>
    /\ UNCHANGED callVars

\* RunReadBank without the emptiness check
RunReadBank_NoCheck(p) ==
    /\ req[p].pc = "read_bank"
    /\ LET bank == bank_rows[req[p].session_id]
           r == reconcile_cheques(req[p].company, bank, Today(now))
       IN  IF r.status = "raised"
           THEN /\ Return(p)
                /\ Reply(p, HttpError("run", 500, "Failed to run tally"))
           ELSE /\ req' = [req EXCEPT ![p].pc = "lookup",
                                      ![p].company = <<>>,
                                      ![p].cashed = r.cashed,
                                      ![p].pending = r.pending,
                                      ![p].unmatched_info = r.unmatched_info]
                /\ UNCHANGED response
    /\ UNCHANGED <<sessions, used_ids, company_rows, bank_rows,
                   tally_results, next_tally_id, now>>
    /\ UNCHANGED callVars

\* the query of the bank transactions, the emptiness check (400) and the
\* call of reconcile_cheques; an exception of the call is answered 500
RunReadBank(p) ==
    /\ req[p].pc = "read_bank"
    /\ LET bank == bank_rows[req[p].session_id]
           r == reconcile_cheques(req[p].company, bank, Today(now))
       IN  IF req[p].company = <<>> \/ bank = <<>>
           THEN /\ Return(p)
                /\ Reply(p, HttpError("run", 400, "Session must have both"))
           ELSE IF r.status = "raised"
           THEN /\ Return(p)
                /\ Reply(p, HttpError("run", 500, "Failed to run tally"))
           ELSE /\ req' = [req EXCEPT ![p].pc = "lookup",
                                      ![p].company = <<>>,
                                      ![p].cashed = r.cashed,
                                      ![p].pending = r.pending,
                                      ![p].unmatched_info = r.unmatched_info]
                /\ UNCHANGED response
    /\ UNCHANGED <<sessions, used_ids, company_rows, bank_rows,
                   tally_results, next_tally_id, now>>
    /\ UNCHANGED callVars

\* store_tally_result: "existing_tally = db.query(...).first()"
RunLookup(p) ==
    /\ req[p].pc = "lookup"
    /\ IF TalliesOf(req[p].session_id) = {}
       THEN req' = [req EXCEPT ![p].pc = "write", ![p].existing = 0]
       ELSE \E row \in TalliesOf(req[p].session_id) :
               req' = [req EXCEPT ![p].pc = "write", ![p].existing = row.id]
    /\ UNCHANGED <<sessions, used_ids, company_rows, bank_rows,
                   tally_results, next_tally_id, now, response>>
    /\ UNCHANGED callVars

\* the unique constraint on tally_results.session_id
UniqueViolation_Unchecked(s) == FALSE
UniqueViolation(s) == TalliesOf(s) # {}

\* the foreign key tally_results.session_id -> sessions.id
ForeignKeyViolation(s) == ~Exists(s)

\* UpdatedTally that adds the new entries to the stored ones
UpdatedTally_Appends(row, l) ==
    LET totals == calculate_totals(l.cashed, l.pending)
    IN  [row EXCEPT !.cashed = @ \o json_dumps_cashed(l.cashed),
                    !.pending = @ \o json_dumps_uncashed(l.pending),
                    !.unmatched = l.unmatched_info,
                    !.total_cashed_amount = totals[1],
                    !.total_pending_amount = totals[2]]

\* UpdatedTally that stamps the row with the time of the update
UpdatedTally_Restamps(row, l) ==
    LET totals == calculate_totals(l.cashed, l.pending)
    IN  [row EXCEPT !.cashed = json_dumps_cashed(l.cashed),
                    !.pending = json_dumps_uncashed(l.pending),
                    !.unmatched = l.unmatched_info,
                    !.total_cashed_amount = totals[1],
                    !.total_pending_amount = totals[2],
                    !.created_at = now]

\* the row as the update branch leaves it: the three texts and the two
\* totals are replaced, id, session_id and created_at are kept
UpdatedTally(row, l) ==
    LET totals == calculate_totals(l.cashed, l.pending)
    IN  [row EXCEPT !.cashed = json_dumps_cashed(l.cashed),
                    !.pending = json_dumps_uncashed(l.pending),
                    !.unmatched = l.unmatched_info,
                    !.total_cashed_amount = totals[1],
                    !.total_pending_amount = totals[2]]

\* the row the insert branch adds; created_at is the column default
NewTally(id, l, utcnow) ==
    LET totals == calculate_totals(l.cashed, l.pending)
    IN  [id |-> id,
         session_id |-> l.session_id,
         cashed |-> json_dumps_cashed(l.cashed),
         pending |-> json_dumps_uncashed(l.pending),
         unmatched |-> l.unmatched_info,
         total_cashed_amount |-> totals[1],
         total_pending_amount |-> totals[2],
         created_at |-> utcnow]

RunSucceeds(p) ==
    /\ Return(p)
    /\ Reply(p, [kind |-> "run", status |-> 200, detail |-> "",
                 report |-> generate_tally_report(req[p].session_id,
                               req[p].cashed, req[p].pending, now)])

\* RunFails that leaves the texts written before the failure in the row
RunFails_NoRollback(p, detail) ==
    /\ Return(p)
    /\ Reply(p, HttpError("run", 500, detail))
    /\ tally_results' =
          {IF row.session_id = req[p].session_id
           THEN [row EXCEPT !.cashed = json_dumps_cashed(req[p].cashed),
                            !.pending = json_dumps_uncashed(req[p].pending)]
           ELSE row : row \in tally_results}
    /\ UNCHANGED next_tally_id

\* "except Exception": db.rollback() undoes what the transaction wrote,
\* and the run is answered 500
RunFails(p, detail) ==
    /\ Return(p)
    /\ Reply(p, HttpError("run", 500, detail))
    /\ UNCHANGED <<tally_results, next_tally_id>>

\* store_tally_result from "if existing_tally" to the commit; after the
\* commit of the update branch, generate_tally_report and the return.  An
\* exception rolls the transaction back (500).  storage_ok = FALSE is a
\* failure of the database at the write or commit.
RunWrite(p) ==
    /\ req[p].pc = "write"
    /\ \E storage_ok \in BOOLEAN :
          LET l == req[p]
              s == l.session_id
          IN  IF ~storage_ok THEN RunFails(p, "OperationalError")
              ELSE IF l.existing # 0
              THEN IF \E row \in tally_results : row.id = l.existing
                   THEN /\ tally_results' =
                              {IF row.id = l.existing
                               THEN UpdatedTally(row, l) ELSE row :
                                  row \in tally_results}
                        /\ UNCHANGED next_tally_id
                        /\ RunSucceeds(p)
                   ELSE RunFails(p, "StaleDataError")
              ELSE IF UniqueViolation(s)
                   THEN RunFails(p, "IntegrityError: unique")
              ELSE IF ForeignKeyViolation(s)
                   THEN RunFails(p, "IntegrityError: foreign key")
              ELSE /\ tally_results' =
                         tally_results \cup {NewTally(next_tally_id, l, now)}
                   /\ next_tally_id' = next_tally_id + 1
                   /\ req' = [req EXCEPT ![p].pc = "refresh",
                                          ![p].existing = next_tally_id]
                   /\ UNCHANGED response
    /\ UNCHANGED <<sessions, used_ids, company_rows, bank_rows, now>>
    /\ UNCHANGED callVars

\* the insert branch after its commit: db.refresh(tally) reads the row
\* back and raises when it is gone (500); then generate_tally_report and
\* the return
RunRefresh(p) ==
    /\ req[p].pc = "refresh"
    /\ IF \E row \in tally_results : row.id = req[p].existing
       THEN /\ RunSucceeds(p)
            /\ UNCHANGED <<tally_results, next_tally_id>>
       ELSE RunFails(p, "InvalidRequestError")
    /\ UNCHANGED <<sessions, used_ids, company_rows, bank_rows, now>>
    /\ UNCHANGED callVars

---------------------------------------------------------------------------
(* get_tally_report *)

StoredReport(s, row) ==
    LET cashed_cheques == json_loads_cashed(row.cashed)
        uncashed_cheques == json_loads_uncashed(row.pending)
    IN  [session_id |-> s,
         total_cashed_cheques |-> Len(cashed_cheques),
         total_uncashed_cheques |-> Len(uncashed_cheques),
         total_cashed_amount |-> row.total_cashed_amount,
         total_uncashed_amount |-> row.total_pending_amount,
         cashed_cheques |-> cashed_cheques,
         uncashed_cheques |-> uncashed_cheques,
         created_at |-> row.created_at]

\* GetReport that answers a subject without a result with an empty report
GetReport_DefaultsEmpty(p, s, u) ==
    /\ req[p].pc = "idle"
    /\ IF ~Owned(s, u)
       THEN Reply(p, HttpError("report", 404, "Session not found"))
       ELSE IF TalliesOf(s) = {}
       THEN Reply(p, [kind |-> "report", status |-> 200, detail |-> "",
                      report |-> [NoReport EXCEPT !.session_id = s]])
       ELSE \E row \in TalliesOf(s) :
               Reply(p, [kind |-> "report", status |-> 200, detail |-> "",
                         report |-> StoredReport(s, row)])
    /\ UNCHANGED <<sessions, used_ids, company_rows, bank_rows,
                   tally_results, next_tally_id, now, req>>
    /\ UNCHANGED callVars

\* the ownership query (404), the query of the stored result (404 when
\* there is none) and the report made of the stored row
GetReport(p, s, u) ==
    /\ req[p].pc = "idle"
    /\ IF ~Owned(s, u)
       THEN Reply(p, HttpError("report", 404, "Session not found"))
       ELSE IF TalliesOf(s) = {}
       THEN Reply(p, HttpError("report", 404, "Tally report not found"))
       ELSE \E row \in TalliesOf(s) :
               Reply(p, [kind |-> "report", status |-> 200, detail |-> "",
                         report |-> StoredReport(s, row)])
    /\ UNCHANGED <<sessions, used_ids, company_rows, bank_rows,
                   tally_results, next_tally_id, now, req>>
    /\ UNCHANGED callVars

---------------------------------------------------------------------------
(* Spec: the handlers, interleaved *)

Init ==
    /\ company_expenses = <<>>
    /\ bank_transactions = <<>>
    /\ rc = NotCalled
    /\ date_str = None /\ parsed = NotParsed
    /\ InitDb
    /\ NoExtraction

Next ==
    \/ \E u \in Owners : CreateSession(u)
    \/ \E s \in SessionIds, u \in Users : DeleteSession(s, u)
    \/ \E s \in SessionIds, u \in Users : UploadCompany(s, u)
    \/ \E s \in SessionIds, u \in Users : UploadBank(s, u)
    \/ Tick
    \/ \E p \in RequestSlots, s \in SessionIds, u \in Users : RunBegin(p, s, u)
    \/ \E p \in RequestSlots : RunReadCompany(p)
    \/ \E p \in RequestSlots : RunReadBank(p)
    \/ \E p \in RequestSlots : RunLookup(p)
    \/ \E p \in RequestSlots : RunWrite(p)
    \/ \E p \in RequestSlots : RunRefresh(p)
    \/ \E p \in RequestSlots, s \in SessionIds, u \in Users : GetReport(p, s, u)

Spec == Init /\ [][Next]_vars

---------------------------------------------------------------------------
(* SpecDates: one call of parse_date on strings made of three fields and
   two separators, and on None, "" and a text that is no date *)

DateFields ==
    {<<"2", "0", "2", "4">>, <<"2", "0", "2", "3">>, <<"0", "2">>,
     <<"0", "3">>, <<"3">>, <<"0", "5">>, <<" ", "5">>, <<"2", "9">>,
     <<"3", "1">>, <<"1", "3">>, <<"x", "x">>}

DateSeparators == {"-", "/"}

NotADate == <<"n", "o", "t", "-", "a", "-", "d", "a", "t", "e">>

DateStrings ==
    {f1 \o <<s1>> \o f2 \o <<s2>> \o f3 :
        f1 \in DateFields, s1 \in DateSeparators, f2 \in DateFields,
        s2 \in DateSeparators, f3 \in DateFields}
      \cup {None, <<>>, NotADate}

InitDates ==
    /\ company_expenses = <<>>
    /\ bank_transactions = <<>>
    /\ rc = NotCalled
    /\ date_str \in DateStrings
    /\ parsed = NotParsed
    /\ InitDb
    /\ NoExtraction

CallParseDate ==
    /\ parsed.status = "none"
    /\ parsed' = [status |-> "returned",
                  value |-> parse_date(date_str, Today(now)),
                  today |-> Today(now)]
    /\ UNCHANGED <<company_expenses, bank_transactions, rc, date_str,
                   chunks, ex>>
    /\ UNCHANGED dbVars

NextDates == CallParseDate \/ Tick

SpecDates == InitDates /\ [][NextDates]_vars

---------------------------------------------------------------------------
(* SpecScenario: one call of reconcile_cheques on company records made of
   the values of the two cheques CHQ1/Alice/100.00/2024-01-01 and
   CHQ2/Bob/50.00/2024-01-10, and no or one bank record made of the values
   of chq1/100.00/2024-01-05 *)

chq1Lower == <<"c", "h", "q", "1">>
Bob == <<"B", "o", "b">>
Jan01 == <<"2", "0", "2", "4", "-", "0", "1", "-", "0", "1">>

ScenarioCompany ==
    [cheque_number : {CHQ1, CHQ2}, payee_name : {Alice, Bob},
     amount : {100000000, 50000000}, issue_date : {Jan01, Jan10}]

ScenarioBank ==
    [cheque_number : {chq1Lower, CHQ2}, amount : {100000000, 50000000},
     clearing_date : {Jan05}]

InitScenario ==
    /\ company_expenses \in SeqsUpTo(ScenarioCompany, MaxCompany)
    /\ bank_transactions \in SeqsUpTo(ScenarioBank, 1)
    /\ rc = NotCalled
    /\ date_str = None /\ parsed = NotParsed
    /\ InitDb
    /\ NoExtraction

NextScenario == CallReconcile

SpecScenario == InitScenario /\ [][NextScenario]_vars

---------------------------------------------------------------------------
(* SpecExtract: one call of extract_company_cheques (extract_bank_cheques
   has the same loop), one step per chunk and one for the return.  What
   chain.invoke does on a chunk is given: it raises, or it returns what
   the parser made of the answer, a dict or something else. *)

MaxChunks == 3

\* str(n) of a natural number
RECURSIVE str(_)
str(n) ==
    IF n < 10 THEN <<Digits[n + 1]>>
    ELSE str(n \div 10) \o str(n % 10)

Absent == <<"<absent>">>
Cheque7 == [cheque_number |-> <<"7">>]
Cheque8 == [cheque_number |-> <<"8">>]
NoteText == <<"o", "k">>
ErrorText == <<"t", "i", "m", "e", "o", "u", "t">>

\* the value under "cheques": no such key, null, or a list
JsonAbsent == [json |-> "absent", items |-> <<>>]
JsonNull == [json |-> "null", items |-> <<>>]
JsonList(items) == [json |-> "list", items |-> items]

\* what chain.invoke does on one chunk
Outcomes ==
    {[kind |-> "raises"], [kind |-> "not_a_dict"]}
    \cup [kind : {"dict"},
          cheques : {JsonAbsent, JsonNull, JsonList(<<Cheque7>>),
                     JsonList(<<Cheque8, Cheque7>>)},
          extraction_notes : {Absent, NoteText}]

\* result.get("cheques", [])
GetCheques(result) ==
    IF result.cheques.json = "absent" THEN JsonList(<<>>) ELSE result.cheques

\* result.get("extraction_notes", "")
GetNotes(result) ==
    IF result.extraction_notes = Absent THEN <<>> ELSE result.extraction_notes

\* all_cheques.extend(value) raises TypeError on None
Extends(value) == value.json = "list"

\* f"[chunk {idx}/{len(chunks)}] "
ChunkTag(idx, n) ==
    <<"[", "c", "h", "u", "n", "k", " ">> \o str(idx) \o <<"/">> \o str(n) \o <<"]", " ">>

ExtractionFailed == <<"e", "x", "t", "r", "a", "c", "t", "i", "o", "n", " ", "f", "a", "i", "l", "e", "d", ":", " ">>

\* str(e) of the exception of a chunk
ExceptionText(o) ==
    IF o.kind = "raises" THEN ErrorText
    ELSE IF o.kind = "not_a_dict" THEN <<"n", "o", " ", "g", "e", "t">>
    ELSE <<"n", "o", "t", " ", "i", "t", "e", "r", "a", "b", "l", "e">>

\* the loop body without the try: the exception leaves the function
TryChunk_NoTry(e, o, n) ==
    IF o.kind = "dict" /\ Extends(GetCheques(o))
    THEN LET note == GetNotes(o)
         IN  [e EXCEPT !.all_cheques = @ \o GetCheques(o).items,
                       !.all_notes =
                           IF note # <<>>
                           THEN Append(@, ChunkTag(e.idx, n) \o note)
                           ELSE @,
                       !.idx = @ + 1]
    ELSE [e EXCEPT !.pc = "raised"]

\* one pass of the loop body on ex: try / except Exception
TryChunk(e, o, n) ==
    IF o.kind = "dict" /\ Extends(GetCheques(o))
    THEN LET note == GetNotes(o)
         IN  [e EXCEPT !.all_cheques = @ \o GetCheques(o).items,
                       !.all_notes =
                           IF note # <<>>
                           THEN Append(@, ChunkTag(e.idx, n) \o note)
                           ELSE @,
                       !.idx = @ + 1]
    ELSE [e EXCEPT !.all_notes =
                       Append(@, ChunkTag(e.idx, n) \o ExtractionFailed
                                     \o ExceptionText(o)),
                   !.idx = @ + 1]

\* " | ".join(notes)
RECURSIVE Join(_)
Join(notes) ==
    IF notes = <<>> THEN <<>>
    ELSE IF Len(notes) = 1 THEN notes[1]
    ELSE notes[1] \o <<" ", "|", " ">> \o Join(Tail(notes))

\* f"Processed {len(chunks)} chunk(s)."
Processed(n) == <<"P", "r", "o", "c", "e", "s", "s", "e", "d", " ">> \o str(n) \o <<" ", "c", "h", "u", "n", "k", "(", "s", ")", ".">>

InitExtract ==
    /\ chunks \in SeqsUpTo(Outcomes, MaxChunks) \ {<<>>}
    /\ ex = [pc |-> "loop", idx |-> 1, all_cheques |-> <<>>,
             all_notes |-> <<>>, cheques |-> <<>>,
             extraction_notes |-> <<>>]
    /\ company_expenses = <<>>
    /\ bank_transactions = <<>>
    /\ rc = NotCalled
    /\ date_str = None /\ parsed = NotParsed
    /\ InitDb

\* for idx, chunk in enumerate(chunks, start=1)
ExtractChunk ==
    /\ ex.pc = "loop"
    /\ ex.idx <= Len(chunks)
    /\ ex' = TryChunk(ex, chunks[ex.idx], Len(chunks))
    /\ UNCHANGED <<company_expenses, bank_transactions, rc, date_str,
                   parsed, chunks>>
    /\ UNCHANGED dbVars

\* the return statement
ExtractReturn ==
    /\ ex.pc = "loop"
    /\ ex.idx > Len(chunks)
    /\ ex' = [ex EXCEPT !.pc = "returned",
                        !.cheques = ex.all_cheques,
                        !.extraction_notes =
                            IF ex.all_notes # <<>>
                            THEN Processed(Len(chunks)) \o <<" ">>
                                     \o Join(ex.all_notes)
                            ELSE Processed(Len(chunks))]
    /\ UNCHANGED <<company_expenses, bank_transactions, rc, date_str,
                   parsed, chunks>>
    /\ UNCHANGED dbVars

NextExtract == ExtractChunk \/ ExtractReturn

SpecExtract == InitExtract /\ [][NextExtract]_vars

---------------------------------------------------------------------------
(* SpecAging: one call of reconcile_cheques, on some day, on one company
   record with an arbitrary issue date and no or one bank record of its
   key and amount *)

InitAging ==
    /\ \E d \in DateStrings :
          company_expenses = <<[cheque_number |-> CHQ1, payee_name |-> Alice,
                                amount |-> 100000000, issue_date |-> d]>>
    /\ bank_transactions \in
          {<<>>, <<[cheque_number |-> CHQ1, amount |-> 100000000,
                    clearing_date |-> Jan05]>>}
    /\ rc = NotCalled
    /\ date_str = None /\ parsed = NotParsed
    /\ InitDb
    /\ NoExtraction

NextAging == CallReconcile \/ Tick

SpecAging == InitAging /\ [][NextAging]_vars

---------------------------------------------------------------------------
(* Properties of a call of reconcile_cheques (SpecReconcile) *)

Range(s) == {s[i] : i \in DOMAIN s}

BagOfSeq(s) == [x \in Range(s) |-> Cardinality({i \in DOMAIN s : s[i] = x})]

\* the sequence of the elements of s whose label is l
RECURSIVE Labelled(_, _, _)
Labelled(s, lab, l) ==
    IF s = <<>> THEN <<>>
    ELSE LET rest == Labelled(SubSeq(s, 1, Len(s) - 1), lab, l)
         IN  IF lab[Len(s)] = l THEN Append(rest, s[Len(s)]) ELSE rest

\* the company record a report entry was made from
CashedSource(e) ==
    [cheque_number |-> e.company_cheque_number, payee_name |-> e.payee_name,
     amount |-> e.amount, issue_date |-> e.issue_date]
PendingSource(e) ==
    [cheque_number |-> e.cheque_number, payee_name |-> e.payee_name,
     amount |-> e.amount, issue_date |-> e.issue_date]

Sources(entries, Source(_)) == [i \in DOMAIN entries |-> Source(entries[i])]

Called == rc.status # "none"
Returned == rc.status = "returned"

BankKeys == {NormalizeKey(bank_transactions[i].cheque_number) :
                i \in DOMAIN bank_transactions}
CashedKeys == {NormalizeKey(rc.cashed[i].company_cheque_number) :
                  i \in DOMAIN rc.cashed}

\* the bank record the index holds under key: the last one in input order
IndexedBank(key) ==
    LET same == {i \in DOMAIN bank_transactions :
                    NormalizeKey(bank_transactions[i].cheque_number) = key}
    IN  bank_transactions[CHOOSE i \in same : \A j \in same : j <= i]

\* company record ce has a same-keyed indexed bank record within tolerance
Matches(ce) ==
    LET key == NormalizeKey(ce.cheque_number)
    IN  /\ key \in BankKeys
        /\ Abs(ce.amount - IndexedBank(key).amount) < AMOUNT_TOLERANCE

\* company record ce has a same-keyed indexed bank record out of tolerance
Mismatches(ce) ==
    LET key == NormalizeKey(ce.cheque_number)
    IN  /\ key \in BankKeys
        /\ Abs(ce.amount - IndexedBank(key).amount) >= AMOUNT_TOLERANCE

IsPartition ==
    /\ Len(rc.cashed) + Len(rc.pending) = Len(company_expenses)
    /\ BagOfSeq(Sources(rc.cashed, CashedSource))
          (+) BagOfSeq(Sources(rc.pending, PendingSource))
       = BagOfSeq(company_expenses)

\* C1: every call of reconcile_cheques, on every pair of lists, returns two
\* lists that between them hold each company record exactly once.
C1_Partition == Called => (Returned /\ IsPartition)

\* The partition holds of every call that returns.
PartitionWhenReturned == Returned => IsPartition


CashedEntryOf(ce) ==
    LET bt == IndexedBank(NormalizeKey(ce.cheque_number))
    IN  [company_cheque_number |-> ce.cheque_number,
         bank_cheque_number |-> bt.cheque_number,
         payee_name |-> ce.payee_name,
         amount |-> ce.amount,
         issue_date |-> ce.issue_date,
         clearing_date |-> bt.clearing_date]

\* the company records that match / do not match, in input order
MatchedInputs == SelectSeq(company_expenses, Matches)
UnmatchedInputs == SelectSeq(company_expenses, LAMBDA ce : ~Matches(ce))

ClassifiedByRule ==
    /\ Sources(rc.cashed, CashedSource) = MatchedInputs
    /\ Sources(rc.pending, PendingSource) = UnmatchedInputs

\* C2: every call classifies every company record, as Cashed exactly when
\* the bank index holds a same-keyed record whose amount is within 0.01 of
\* the company amount, and as Pending otherwise; nothing else can happen
\* to a company record.
C2_CashedIffMatch == Called => (Returned /\ ClassifiedByRule)

\* The rule holds of every call that returns.
ClassifiedWhenReturned == Returned => ClassifiedByRule

\* C4: in a returned summary the unmatched-bank set and the set of keys of
\* the cashed entries are disjoint and together are the set of all bank keys.
C4_UnmatchedBankComplement ==
    Returned =>
        /\ rc.unmatched_info.unmatched_bank_cheques \cap CashedKeys = {}
        /\ rc.unmatched_info.unmatched_bank_cheques \cup CashedKeys = BankKeys

\* a call that cashed a record and left another bank key unmatched
C4_Witness ==
    /\ Returned
    /\ rc.cashed # <<>>
    /\ rc.unmatched_info.unmatched_bank_cheques # {}

\* C5: in a returned call, a company record whose key is in the bank index
\* with an amount 0.01 or more away is Pending, its key is in the
\* unmatched-company set and its key is still in the unmatched-bank set.
C5_MismatchStaysUnmatchedOnBank ==
    Returned =>
        \A i \in DOMAIN company_expenses :
            LET ce == company_expenses[i]
                key == NormalizeKey(ce.cheque_number)
            IN  Mismatches(ce) =>
                  /\ \E k \in DOMAIN rc.pending : PendingSource(rc.pending[k]) = ce
                  /\ \A k \in DOMAIN rc.cashed : CashedSource(rc.cashed[k]) # ce
                  /\ key \in rc.unmatched_info.unmatched_company_cheques
                  /\ key \in rc.unmatched_info.unmatched_bank_cheques

\* C5, with the last part weakened: in a returned call, a company record
\* whose key is in the bank index with an amount 0.01 or more away is
\* Pending, its key is in the unmatched-company set, and its key is in the
\* unmatched-bank set exactly when no company record of that key is Cashed.
C5_MismatchStaysUnmatchedUnlessCashed ==
    Returned =>
        \A i \in DOMAIN company_expenses :
            LET ce == company_expenses[i]
                key == NormalizeKey(ce.cheque_number)
            IN  Mismatches(ce) =>
                  /\ \E k \in DOMAIN rc.pending : PendingSource(rc.pending[k]) = ce
                  /\ \A k \in DOMAIN rc.cashed : CashedSource(rc.cashed[k]) # ce
                  /\ key \in rc.unmatched_info.unmatched_company_cheques
                  /\ (key \in rc.unmatched_info.unmatched_bank_cheques
                        <=> key \notin CashedKeys)

\* a mismatched record alone under its key, and one beside a cashed record
\* of the same key
C5_Witness ==
    /\ Returned
    /\ \E i \in DOMAIN company_expenses :
          /\ Mismatches(company_expenses[i])
          /\ NormalizeKey(company_expenses[i].cheque_number)
                \in rc.unmatched_info.unmatched_bank_cheques

\* C6: the cashed list and the pending list of a returned call are
\* subsequences of the input: some labelling of the input positions by the
\* two lists gives back each list, in order.
C6_InputOrderPreserved ==
    Returned =>
        \E lab \in [DOMAIN company_expenses -> {"cashed", "pending"}] :
            /\ Sources(rc.cashed, CashedSource)
                  = Labelled(company_expenses, lab, "cashed")
            /\ Sources(rc.pending, PendingSource)
                  = Labelled(company_expenses, lab, "pending")

\* two different records in the same output list
C6_Witness ==
    /\ Returned
    /\ \/ Len(rc.cashed) = 2 /\ rc.cashed[1] # rc.cashed[2]
       \/ Len(rc.pending) = 2 /\ rc.pending[1] # rc.pending[2]


---------------------------------------------------------------------------
(* Properties of the stored result (Spec) *)

\* the sum of the amounts of a list of entries
RECURSIVE TotalOf(_)
TotalOf(entries) ==
    IF entries = <<>> THEN 0
    ELSE TotalOf(SubSeq(entries, 1, Len(entries) - 1))
         + entries[Len(entries)].amount

RunReturned(p) == response[p].kind = "run" /\ response[p].status = 200

\* the step is the commit of the write of request p: of its update, which
\* is answered 200 at once, or of its insert, which goes on to the refresh
Commits(p) ==
    /\ req[p].pc = "write"
    /\ \/ response'[p].kind = "run" /\ response'[p].status = 200
       \/ req'[p].pc = "refresh"

\* the step answers request p with its report
Reports(p) ==
    /\ req[p].pc \in {"write", "refresh"}
    /\ response'[p].kind = "run" /\ response'[p].status = 200

TalliesIn(table, s) == {row \in table : row.session_id = s}

StoredTotalsAreSums ==
    \A row \in tally_results :
        /\ row.total_cashed_amount = TotalOf(json_loads_cashed(row.cashed))
        /\ row.total_pending_amount = TotalOf(json_loads_uncashed(row.pending))

ReportTotalsAreSums ==
    \A p \in RequestSlots :
        RunReturned(p) =>
            /\ response[p].report.total_cashed_amount
                  = TotalOf(response[p].report.cashed_cheques)
            /\ response[p].report.total_uncashed_amount
                  = TotalOf(response[p].report.uncashed_cheques)

\* what a run stores at its commit and what it reports are the totals of
\* the lists the run holds
SameRunSameTotals ==
    \A p \in RequestSlots :
        /\ Commits(p) =>
              \E row \in TalliesIn(tally_results', req[p].session_id) :
                  /\ row.total_cashed_amount = TotalOf(req[p].cashed)
                  /\ row.total_pending_amount = TotalOf(req[p].pending)
        /\ Reports(p) =>
              /\ response'[p].report.total_cashed_amount
                    = TotalOf(req[p].cashed)
              /\ response'[p].report.total_uncashed_amount
                    = TotalOf(req[p].pending)

C7_SecondRunStoresTheSame ==
    [][\A p \in RequestSlots :
          LET l == req[p]
              s == l.session_id
              first == reconcile_cheques(company_rows[s], bank_rows[s],
                                         Today(now))
          IN  ( /\ Commits(p)
                /\ first.status = "returned"
                /\ l.cashed = first.cashed /\ l.pending = first.pending
                /\ \E row \in TalliesIn(tally_results, s) :
                      /\ row.cashed = json_dumps_cashed(first.cashed)
                      /\ row.pending = json_dumps_uncashed(first.pending) )
              => /\ Cardinality(TalliesIn(tally_results', s)) = 1
                 /\ \A after \in TalliesIn(tally_results', s) :
                       \E before \in TalliesIn(tally_results, s) :
                          /\ after.cashed = before.cashed
                          /\ after.pending = before.pending
                          /\ after.total_cashed_amount
                                = before.total_cashed_amount
                          /\ after.total_pending_amount
                                = before.total_pending_amount
      ]_vars

\* two runs of one subject have returned the same lists, the second one on
\* the result the first one stored
C7_Witness ==
    /\ RunReturned("r1") /\ RunReturned("r2")
    /\ response["r1"].report.cashed_cheques
          = response["r2"].report.cashed_cheques
    /\ response["r1"].report.uncashed_cheques
          = response["r2"].report.uncashed_cheques
    /\ response["r1"].report.uncashed_cheques # <<>>
    /\ Cardinality(tally_results) = 1
    /\ next_tally_id = 2

\* C8: there is never more than one stored result for a subject.
C8_OneResultPerSubject ==
    \A s \in SessionIds : Cardinality(TalliesOf(s)) <= 1

\* a result is stored and a run that found none at its lookup was refused
\* at its insert
C8_Witness ==
    /\ tally_results # {}
    /\ \E p \in RequestSlots :
          /\ response[p].kind = "run"
          /\ response[p].detail = "IntegrityError: unique"

\* C9: two runs of one subject that interleave both end well, as they
\* would one after the other: no run is refused because the other run
\* stored its result first.
C9_ConcurrentRunsBothSucceed ==
    \A p \in RequestSlots :
        ~(/\ response[p].kind = "run"
          /\ response[p].status = 500
          /\ response[p].detail = "IntegrityError: unique")

HasResult(s) == TalliesOf(s) # {}

---------------------------------------------------------------------------
(* Errors of a run and of a fetch (Spec) *)

PreconditionError == HttpError("run", 400, "Session must have both")

\* C11: a run that has read an empty company ledger or reads an empty bank
\* ledger is answered 400 at that read, whatever the records of the other
\* ledger are, and no step of the run up to there changes a stored result.
C11_EmptyLedgerRejected ==
    [][\A p \in RequestSlots :
          /\ ( /\ req[p].pc = "read_bank"
               /\ req'[p] # req[p]
               /\ \/ req[p].company = <<>>
                  \/ bank_rows[req[p].session_id] = <<>> )
                => /\ response'[p] = PreconditionError
                   /\ req'[p].pc = "idle"
          /\ ( /\ req[p].pc \in {"idle", "read_company", "read_bank"}
               /\ <<req'[p], response'[p]>> # <<req[p], response[p]>> )
                => tally_results' = tally_results
    ]_vars

\* a run was answered 400 while a result of the subject is stored
C11_Witness ==
    \E p \in RequestSlots :
        /\ response[p] = PreconditionError
        /\ tally_results # {}

ReportNotFound == HttpError("report", 404, "Tally report not found")

\* C12: a fetch by the owner of a subject that has no stored result is
\* answered 404 "Tally report not found", with no report in the answer,
\* and stores nothing.
C12_FetchBeforeRunIsNotFound ==
    [][\A p \in RequestSlots, s \in SessionIds, u \in Users :
          (GetReport(p, s, u) /\ Owned(s, u) /\ ~HasResult(s))
             => /\ response'[p] = ReportNotFound
                /\ response'[p].status # 200
                /\ response'[p].report = NoReport
                /\ tally_results' = tally_results
                /\ ~HasResult(s)'
    ]_vars

\* the owner has fetched the report of a subject that has its two ledgers
\* and no result
C12_Witness ==
    \E p \in RequestSlots, s \in SessionIds :
        /\ response[p] = ReportNotFound
        /\ Exists(s) /\ ~HasResult(s)
        /\ company_rows[s] # <<>> /\ bank_rows[s] # <<>>

\* the details of the failures of a write
WriteFailures ==
    {"OperationalError", "StaleDataError", "IntegrityError: unique",
     "IntegrityError: foreign key"}

\* C13: a run whose write fails, at the update, at the insert or at the
\* commit, leaves the table of stored results exactly as it was, and is
\* answered with an error that carries no report.
C13_FailedWriteRollsBack ==
    [][\A p \in RequestSlots :
          (req[p].pc = "write" /\ req'[p].pc = "idle"
             /\ response'[p].status # 200)
             => /\ tally_results' = tally_results
                /\ response'[p].kind = "run"
                /\ response'[p].status = 500
                /\ response'[p].detail \in WriteFailures
                /\ response'[p].report = NoReport
    ]_vars

\* the write of a run failed on a day after the one on which the result
\* of the subject was stored, and the ledgers give other lists than the
\* stored ones
C13_Witness ==
    \E p \in RequestSlots, s \in SessionIds :
        /\ response[p].kind = "run"
        /\ response[p].detail = "OperationalError"
        /\ \E row \in TalliesOf(s) :
              /\ row.created_at < now
              /\ LET r == reconcile_cheques(company_rows[s], bank_rows[s],
                                             Today(now))
                 IN  /\ r.status = "returned"
                     /\ row.cashed # json_dumps_cashed(r.cashed)

---------------------------------------------------------------------------
(* Records that lack a field (SpecMalformed) *)

LacksField(rec) == rec.cheque_number = None \/ rec.amount = NoAmount

SomeRecordLacksField ==
    \/ \E i \in DOMAIN company_expenses : LacksField(company_expenses[i])
    \/ \E i \in DOMAIN bank_transactions : LacksField(bank_transactions[i])

\* C14: a call on lists in which some company or bank record has no cheque
\* number or no amount raises, so that the run fails and stores nothing.
C14_MissingFieldFailsTheRun ==
    (Called /\ SomeRecordLacksField) => rc.status = "raised"

---------------------------------------------------------------------------
(* Absent issue dates (SpecReconcile) *)

SomeIssueDateAbsent ==
    \E i \in DOMAIN company_expenses : Falsy(company_expenses[i].issue_date)

\* C15: a call on company records of which some have no issue date
\* returns; the entries of these records carry a null issue date, and
\* their Pending entries have days_outstanding 0.
C15_AbsentIssueDateAccepted ==
    (Called /\ SomeIssueDateAbsent)
       => /\ Returned
          /\ Len(rc.cashed) + Len(rc.pending) = Len(company_expenses)
          /\ \A k \in DOMAIN rc.pending :
                rc.pending[k].issue_date = None
                   => rc.pending[k].days_outstanding = 0

---------------------------------------------------------------------------
(* The tolerance at its bound (SpecReconcile) *)

\* the difference between a company record and the indexed bank record of
\* its key
IndexedDifference(ce) ==
    Abs(ce.amount - IndexedBank(NormalizeKey(ce.cheque_number)).amount)

IsCashed(ce) == \E k \in DOMAIN rc.cashed : CashedSource(rc.cashed[k]) = ce
IsPending(ce) == \E k \in DOMAIN rc.pending : PendingSource(rc.pending[k]) = ce

\* C16: in a returned call, a company record whose amount is 0.009999 from
\* the indexed bank record of its key is Cashed, and one whose amount is
\* 0.01 from it is Pending.
C16_ToleranceIsStrict ==
    Returned =>
        \A i \in DOMAIN company_expenses :
            LET ce == company_expenses[i]
            IN  NormalizeKey(ce.cheque_number) \in BankKeys =>
                  /\ IndexedDifference(ce) = AMOUNT_TOLERANCE - 1
                        => (IsCashed(ce) /\ ~IsPending(ce))
                  /\ IndexedDifference(ce) = AMOUNT_TOLERANCE
                        => (IsPending(ce) /\ ~IsCashed(ce))

\* a call with a record at 0.009999 and a record at 0.01
C16_Witness ==
    /\ Returned
    /\ \E i, j \in DOMAIN company_expenses :
          /\ NormalizeKey(company_expenses[i].cheque_number) \in BankKeys
          /\ NormalizeKey(company_expenses[j].cheque_number) \in BankKeys
          /\ IndexedDifference(company_expenses[i]) = AMOUNT_TOLERANCE - 1
          /\ IndexedDifference(company_expenses[j]) = AMOUNT_TOLERANCE
          /\ rc.cashed # <<>> /\ rc.pending # <<>>

---------------------------------------------------------------------------
(* Cheque numbers (SpecKeys) *)

\* s without the whitespace before its first and after its last character
\* that is not whitespace
Trimmed(s) ==
    LET inner == {i \in DOMAIN s : s[i] \notin Whitespace}
    IN  IF inner = {} THEN <<>>
        ELSE SubSeq(s, CHOOSE i \in inner : \A j \in inner : i <= j,
                       CHOOSE i \in inner : \A j \in inner : j <= i)

\* the same character, or the two cases of one letter
SameLetter(x, y) ==
    \/ x = y
    \/ \E i \in DOMAIN LowerLetters :
          {x, y} = {LowerLetters[i], UpperLetters[i]}

\* a and b differ at most in surrounding whitespace and in letter case
SameCheque(a, b) ==
    /\ Len(Trimmed(a)) = Len(Trimmed(b))
    /\ \A i \in DOMAIN Trimmed(a) : SameLetter(Trimmed(a)[i], Trimmed(b)[i])

TheCompanyNumber == company_expenses[1].cheque_number
TheBankNumber == bank_transactions[1].cheque_number

\* C17: a company record and a bank record of the same amount are matched
\* (the company record is Cashed) exactly when their cheque numbers differ
\* at most in surrounding whitespace and letter case; with any other
\* difference (a leading zero, a space inside) the record is Pending.
C17_SameChequeIffNormalizedEqual ==
    (Returned /\ Len(company_expenses) = 1 /\ Len(bank_transactions) = 1)
       => /\ (Len(rc.cashed) = 1) <=> SameCheque(TheCompanyNumber, TheBankNumber)
          /\ (Len(rc.pending) = 1) <=> ~SameCheque(TheCompanyNumber, TheBankNumber)
          /\ (TheCompanyNumber = <<"0", "0", "7">> /\ TheBankNumber = <<"7">>)
                => rc.cashed = <<>>
          /\ (TheCompanyNumber = <<"c", " ", "7">> /\ TheBankNumber = <<"c", "7">>)
                => rc.cashed = <<>>

\* numbers that differ in case and surrounding whitespace were matched
C17_Witness ==
    /\ Returned
    /\ company_expenses # <<>> /\ bank_transactions # <<>>
    /\ TheCompanyNumber = <<" ", "c", "7">>
    /\ TheBankNumber = <<"C", "7", " ">>
    /\ Len(rc.cashed) = 1

\* the keys a call has put in its summary
SummaryKeys ==
    rc.unmatched_info.unmatched_bank_cheques
       \cup rc.unmatched_info.unmatched_company_cheques

\* C18: normalizing a normalized key gives the same key: for the cheque
\* numbers of the call, and for every key the call has put in its summary.
C18_NormalizeKeyIdempotent ==
    /\ \A i \in DOMAIN company_expenses :
          LET x == company_expenses[i].cheque_number
          IN  NormalizeKey(NormalizeKey(x)) = NormalizeKey(x)
    /\ \A i \in DOMAIN bank_transactions :
          LET x == bank_transactions[i].cheque_number
          IN  NormalizeKey(NormalizeKey(x)) = NormalizeKey(x)
    /\ \A k \in SummaryKeys : NormalizeKey(k) = k

\* a key of the summary that normalization has both trimmed and
\* upper-cased
C18_Witness ==
    /\ Returned
    /\ company_expenses # <<>>
    /\ TheCompanyNumber = <<" ", " ", "c">>
    /\ <<"C">> \in rc.unmatched_info.unmatched_company_cheques

---------------------------------------------------------------------------
(* Bank records of one key (SpecReconcile) *)

\* C19: in a returned call every cashed entry is within tolerance of, and
\* carries the cheque number and clearing date of, the last bank record of
\* its key; a company record out of tolerance of that last record is
\* Pending whatever the earlier bank records of the key are; and a call
\* raises only on a record without issue date, never on bank records that
\* share a key.
C19_LastBankRecordWins ==
    /\ rc.status = "raised" => SomeIssueDateAbsent
    /\ Returned =>
          /\ \A k \in DOMAIN rc.cashed :
                LET e == rc.cashed[k]
                    key == NormalizeKey(e.company_cheque_number)
                IN  /\ key \in BankKeys
                    /\ e.bank_cheque_number = IndexedBank(key).cheque_number
                    /\ e.clearing_date = IndexedBank(key).clearing_date
                    /\ Abs(e.amount - IndexedBank(key).amount)
                          < AMOUNT_TOLERANCE
          /\ \A i \in DOMAIN company_expenses :
                LET ce == company_expenses[i]
                IN  Mismatches(ce) => (IsPending(ce) /\ ~IsCashed(ce))

\* two bank records of one key, the first within tolerance of a company
\* record and the last not: the company record is Pending
C19_Witness ==
    /\ Returned
    /\ Len(bank_transactions) = 2 /\ Len(company_expenses) = 1
    /\ NormalizeKey(bank_transactions[1].cheque_number)
          = NormalizeKey(bank_transactions[2].cheque_number)
    /\ NormalizeKey(company_expenses[1].cheque_number)
          = NormalizeKey(bank_transactions[2].cheque_number)
    /\ bank_transactions[1].cheque_number # bank_transactions[2].cheque_number
    /\ Abs(company_expenses[1].amount - bank_transactions[1].amount)
          < AMOUNT_TOLERANCE
    /\ Abs(company_expenses[1].amount - bank_transactions[2].amount)
          >= AMOUNT_TOLERANCE
    /\ Len(rc.pending) = 1

---------------------------------------------------------------------------
(* parse_date (SpecDates) *)

\* the decimal digits of n, in w places
RECURSIVE Padded(_, _)
Padded(n, w) ==
    IF w = 0 THEN <<>>
    ELSE Append(Padded(n \div 10, w - 1), Digits[(n % 10) + 1])

\* the ways a month and a day are written
MonthTexts(m) == {Padded(m, 2)} \cup (IF m < 10 THEN {Padded(m, 1)} ELSE {})
DayTexts(d) ==
    {Padded(d, 2)}
       \cup (IF d < 10 THEN {Padded(d, 1), <<" ">> \o Padded(d, 1)} ELSE {})

DateYears == {2023, 2024}

\* the texts of the days of DateYears in the three formats, each with the
\* ordinal of its day
DatedTexts ==
    UNION {UNION {UNION {
        LET day == ToOrdinal(y, m, d)
        IN  UNION {{<<Padded(y, 4) \o <<"-">> \o mt \o <<"-">> \o dt, day>>,
                    <<dt \o <<"-">> \o mt \o <<"-">> \o Padded(y, 4), day>>,
                    <<dt \o <<"/">> \o mt \o <<"/">> \o Padded(y, 4), day>>} :
                      mt \in MonthTexts(m), dt \in DayTexts(d)} :
        d \in 1..DaysInMonth(y, m)} : m \in 1..12} : y \in DateYears}

DateTexts == {pair[1] : pair \in DatedTexts}

Mar05Dashed == <<"2", "0", "2", "4", "-", "0", "3", "-", "0", "5">>
Mar05DayFirst == <<"0", "5", "-", "0", "3", "-", "2", "0", "2", "4">>

\* date(2024, 3, 5).toordinal(): the days of 2023 years, the 490 leap days
\* among them, and the 65th day of 2024
Mar05 == 365 * 2023 + 490 + 65

\* C20: every call of parse_date returns a date; for None, for "" and for
\* a text of none of the three formats it is the day of the call, and for
\* a text of a format it is the day the text names ("2024-03-05" and
\* "05-03-2024" are both 5 March 2024).
C20_ParseDateTotal ==
    parsed.status # "none" =>
        /\ parsed.status = "returned"
        /\ parsed.value \in Nat /\ parsed.value >= 1
        /\ Falsy(date_str) => parsed.value = parsed.today
        /\ (~Falsy(date_str) /\ date_str \notin DateTexts)
              => parsed.value = parsed.today
        /\ date_str \in DateTexts => <<date_str, parsed.value>> \in DatedTexts
        /\ date_str = Mar05Dashed => parsed.value = Mar05
        /\ date_str = Mar05DayFirst => parsed.value = Mar05

\* a text of no format was parsed on the second day
C20_Witness ==
    /\ parsed.status = "returned"
    /\ date_str = NotADate
    /\ parsed.today = BaseDay + 1
    /\ parsed.value = BaseDay + 1

---------------------------------------------------------------------------
(* days_outstanding (SpecAging) *)

\* the days from the day a text names to today, 0 when the day is to come
\* or the text names no day
DaysSince(text, today) ==
    IF text \in DateTexts
    THEN LET day == (CHOOSE pair \in DatedTexts : pair[1] = text)[2]
         IN  IF day < today THEN today - day ELSE 0
    ELSE 0

\* C21: the days_outstanding of every Pending entry a call returns is the
\* number of days from its issue date to the day of the call, 0 when the
\* issue date is to come or is no date; for an absent issue date the
\* function gives 0; and Cashed entries have no days_outstanding.
C21_DaysOutstanding ==
    [][CallReconcile =>
          /\ rc'.status = "returned" =>
                /\ \A k \in DOMAIN rc'.pending :
                      /\ rc'.pending[k].days_outstanding \in Nat
                      /\ rc'.pending[k].days_outstanding
                            = DaysSince(rc'.pending[k].issue_date, Today(now))
                /\ \A k \in DOMAIN rc'.cashed :
                      "days_outstanding" \notin DOMAIN rc'.cashed[k]
          /\ calculate_days_outstanding(None, Today(now)) = 0
          /\ calculate_days_outstanding(<<>>, Today(now)) = 0
    ]_vars

Mar05Of2023 == <<"2", "0", "2", "3", "-", "0", "3", "-", "0", "5">>

\* a Pending entry issued on 5 March 2023, 321 days before 20 January 2024
C21_Witness ==
    /\ Returned
    /\ Len(rc.pending) = 1
    /\ rc.pending[1].issue_date = Mar05Of2023
    /\ rc.pending[1].days_outstanding = 321

---------------------------------------------------------------------------
(* The values of the entries (SpecScenario) *)

ScenarioCheques ==
    <<[cheque_number |-> CHQ1, payee_name |-> Alice, amount |-> 100000000,
       issue_date |-> Jan01],
      [cheque_number |-> CHQ2, payee_name |-> Bob, amount |-> 50000000,
       issue_date |-> Jan10]>>

ScenarioCleared ==
    <<[cheque_number |-> chq1Lower, amount |-> 100000000,
       clearing_date |-> Jan05]>>

\* C22: the cashed entries of a returned call are, in order, the matched
\* company records with their own cheque number, payee, amount and issue
\* date and the cheque number and clearing date of the bank record of
\* their key; the pending entries are the other company records with
\* their own four values.  On CHQ1/100.00 and CHQ2/50.00 against
\* chq1/100.00 the call returns CHQ1 cashed with chq1, CHQ2 pending,
\* totals 100.00 and 50.00, unmatched company keys {CHQ2} and no
\* unmatched bank key.
C22_EntriesCarrySourceValues ==
    Returned =>
        /\ rc.cashed = [k \in DOMAIN MatchedInputs |->
                           CashedEntryOf(MatchedInputs[k])]
        /\ Sources(rc.pending, PendingSource) = UnmatchedInputs
        /\ (company_expenses = ScenarioCheques
               /\ bank_transactions = ScenarioCleared)
              => /\ rc.cashed =
                       <<[company_cheque_number |-> CHQ1,
                          bank_cheque_number |-> chq1Lower,
                          payee_name |-> Alice, amount |-> 100000000,
                          issue_date |-> Jan01, clearing_date |-> Jan05]>>
                 /\ Len(rc.pending) = 1
                 /\ PendingSource(rc.pending[1]) = ScenarioCheques[2]
                 /\ calculate_totals(rc.cashed, rc.pending)
                       = <<100000000, 50000000>>
                 /\ rc.unmatched_info.unmatched_company_cheques = {CHQ2}
                 /\ rc.unmatched_info.unmatched_bank_cheques = {}

\* the call on the two cheques and the one cleared cheque has returned
C22_Witness ==
    /\ Returned
    /\ company_expenses = ScenarioCheques
    /\ bank_transactions = ScenarioCleared
    /\ Len(rc.cashed) = 1 /\ Len(rc.pending) = 1

---------------------------------------------------------------------------
(* The ownership query (Spec) *)

SessionNotFound(kind) == HttpError(kind, 404, "Session not found")

\* C23: a run or a fetch asked by a user who does not own the session,
\* whether the session is absent or another user's, is answered 404
\* "Session not found" in its first step, keeps nothing of the session in
\* the request and leaves sessions, ledgers and stored results as they are.
C23_NotFoundForNonOwner ==
    [][\A p \in RequestSlots, s \in SessionIds, u \in Users :
          ~Owned(s, u) =>
              /\ RunBegin(p, s, u) =>
                    /\ response'[p] = SessionNotFound("run")
                    /\ req'[p] = Idle
                    /\ UNCHANGED <<sessions, company_rows, bank_rows,
                                   tally_results>>
              /\ GetReport(p, s, u) =>
                    /\ response'[p] = SessionNotFound("report")
                    /\ req'[p] = Idle
                    /\ UNCHANGED <<sessions, company_rows, bank_rows,
                                   tally_results>>
    ]_vars

\* the session exists with a stored result, and both requests were
\* answered "Session not found": the one whose run stored the result was
\* answered so afterwards, for a user who does not own the session
C23_Witness ==
    /\ Exists("s1")
    /\ TalliesOf("s1") # {}
    /\ response["r1"] = SessionNotFound("report")
    /\ response["r2"] = SessionNotFound("run")

---------------------------------------------------------------------------
(* The end of a stored result (Spec) *)

\* C24: a stored row is gone after a step only when the step deletes the
\* session of the row; the step that deletes a session leaves none of its
\* company expenses, bank transactions and stored results; and every
\* stored row belongs to a session that exists.
C24_DestroyedOnlyWithSubject ==
    [][/\ \A row \in tally_results :
             (\A kept \in tally_results' : kept.id # row.id)
                => Exists(row.session_id) /\ ~Exists(row.session_id)'
       /\ \A s \in SessionIds :
             (Exists(s) /\ ~Exists(s)')
                => /\ company_rows'[s] = <<>>
                   /\ bank_rows'[s] = <<>>
                   /\ TalliesIn(tally_results', s) = {}
       /\ \A row \in tally_results' : Exists(row.session_id)'
    ]_vars

\* the session that had a stored result was deleted, and nothing of it is
\* left
C24_Witness ==
    /\ used_ids = {"s1"} /\ sessions = {}
    /\ next_tally_id > 1
    /\ tally_results = {}
    /\ company_rows["s1"] = <<>> /\ bank_rows["s1"] = <<>>

---------------------------------------------------------------------------
(* Two calls on the same lists (SpecPure) *)

---------------------------------------------------------------------------
(* The chunks of an extraction (SpecExtract) *)

\* chain.invoke raised on the chunk, or its answer could not be used
FailedChunk(o) == o.kind # "dict" \/ o.cheques.json = "null"

\* the records of the chunks that did not fail, in chunk order
RECURSIVE RecordsOf(_)
RecordsOf(outcomes) ==
    IF outcomes = <<>> THEN <<>>
    ELSE (IF FailedChunk(Head(outcomes)) THEN <<>>
          ELSE Head(outcomes).cheques.items) \o RecordsOf(Tail(outcomes))

Contains(s, sub) ==
    \E i \in 1..(Len(s) - Len(sub) + 1) :
        SubSeq(s, i, i + Len(sub) - 1) = sub

\* C26: the extraction never raises and goes through every chunk: at each
\* point of the loop all_cheques holds the records of the chunks passed
\* that did not fail, in chunk order; the call returns after the last
\* chunk with the records of all chunks that did not fail, in chunk
\* order, and extraction_notes has "[chunk i/n] extraction failed: " for
\* every chunk i that failed.
C26_ChunkFailuresIsolated ==
    /\ ex.pc \in {"loop", "returned"}
    /\ ex.pc = "loop" =>
          /\ ENABLED NextExtract
          /\ ex.all_cheques = RecordsOf(SubSeq(chunks, 1, ex.idx - 1))
    /\ ex.pc = "returned" =>
          /\ ex.idx = Len(chunks) + 1
          /\ ex.cheques = RecordsOf(chunks)
          /\ \A i \in DOMAIN chunks :
                FailedChunk(chunks[i]) =>
                    Contains(ex.extraction_notes,
                             ChunkTag(i, Len(chunks)) \o ExtractionFailed)

\* the call returned the records of the first and the third chunk, the
\* second having failed
C26_Witness ==
    /\ ex.pc = "returned"
    /\ Len(chunks) = 3
    /\ ~FailedChunk(chunks[1]) /\ FailedChunk(chunks[2])
    /\ ~FailedChunk(chunks[3])
    /\ ex.cheques = <<Cheque7, Cheque8, Cheque7>>

---------------------------------------------------------------------------
(* The report of a run and the report fetched after it (Spec) *)

SameData(a, b) ==
    /\ a.cashed_cheques = b.cashed_cheques
    /\ a.uncashed_cheques = b.uncashed_cheques
    /\ a.total_cashed_cheques = b.total_cashed_cheques
    /\ a.total_uncashed_cheques = b.total_uncashed_cheques
    /\ a.total_cashed_amount = b.total_cashed_amount
    /\ a.total_uncashed_amount = b.total_uncashed_amount

\* C27: when a run is answered with its report, the subject has a stored
\* result, and the report a fetch makes of that stored result, as long as
\* no run writes after the answer, has the cashed list, the pending list,
\* the two counts and the two totals of the report of the run.
C27_FetchReturnsTheRunsReport ==
    [][\A p \in RequestSlots :
          Reports(p) =>
              LET s == req[p].session_id
              IN  /\ TalliesIn(tally_results', s) # {}
                  /\ \A row \in TalliesIn(tally_results', s) :
                        SameData(StoredReport(s, row), response'[p].report)
    ]_vars

---------------------------------------------------------------------------
(* created_at of the stored result (Spec) *)

\* C28: a row that is stored before and after a step keeps its
\* session_id and its created_at, whatever a run wrote into it; a row
\* that a step adds has the time of that step as created_at; the report
\* of a run has the time of its answer as created_at and a fetched report
\* the created_at of the stored row.
C28_CreatedAtIsKept ==
    [][/\ \A row \in tally_results, kept \in tally_results' :
             kept.id = row.id
                => /\ kept.session_id = row.session_id
                   /\ kept.created_at = row.created_at
       /\ \A added \in tally_results' :
             (\A row \in tally_results : row.id # added.id)
                => added.created_at = now
       /\ \A p \in RequestSlots :
             /\ Reports(p) => response'[p].report.created_at = now
             /\ (response'[p] # response[p] /\ response'[p].kind = "report"
                    /\ response'[p].status = 200)
                   => \E row \in tally_results :
                         response'[p].report.created_at = row.created_at
    ]_vars

\* a run was answered on the second day with a report of that day, the
\* result it wrote is stored with the first day as created_at, and the
\* report fetched after it has the same lists and the first day
C28_Witness ==
    /\ response["r1"].kind = "run" /\ response["r1"].status = 200
    /\ response["r1"].report.created_at = 1
    /\ response["r2"].kind = "report" /\ response["r2"].status = 200
    /\ response["r2"].report.created_at = 0
    /\ SameData(response["r1"].report, response["r2"].report)
    /\ \A row \in tally_results :
          /\ row.created_at = 0
          /\ SameData(StoredReport("s1", row), response["r1"].report)
    /\ tally_results # {}

---------------------------------------------------------------------------
(* Several company records on one bank record (SpecReconcile) *)

\* C29: in a returned call, two company records of one key that are both
\* within tolerance of the bank record of that key are both cashed, in
\* input order, each with the cheque number and the clearing date of that
\* bank record; the cashed entries are as many as the company records
\* that match, however few the bank records.
C29_BankRecordNotConsumed ==
    Returned =>
        /\ Len(rc.cashed) = Len(MatchedInputs)
        /\ \A i, j \in DOMAIN company_expenses :
              LET a == company_expenses[i]
                  b == company_expenses[j]
                  key == NormalizeKey(a.cheque_number)
              IN  (/\ i < j
                   /\ NormalizeKey(b.cheque_number) = key
                   /\ Matches(a) /\ Matches(b))
                  => \E m, n \in DOMAIN rc.cashed :
                        /\ m < n
                        /\ CashedSource(rc.cashed[m]) = a
                        /\ CashedSource(rc.cashed[n]) = b
                        /\ \A k \in {m, n} :
                              /\ rc.cashed[k].bank_cheque_number
                                    = IndexedBank(key).cheque_number
                              /\ rc.cashed[k].clearing_date
                                    = IndexedBank(key).clearing_date

\* two cashed entries on one bank record: more cashed entries than bank
\* records, and a cashed total above the sum of the bank amounts
C29_Witness ==
    /\ Returned
    /\ Len(bank_transactions) = 1
    /\ Len(rc.cashed) = 2
    /\ rc.cashed[1].bank_cheque_number = rc.cashed[2].bank_cheque_number
    /\ TotalOf(rc.cashed) > bank_transactions[1].amount

---------------------------------------------------------------------------
(* The unmatched-company set and the two counts (SpecReconcile) *)

PendingKeys == {NormalizeKey(rc.pending[k].cheque_number) :
                   k \in DOMAIN rc.pending}

\* C30: in a returned summary the unmatched-company set is the set of the
\* normalized keys of the pending entries and each count is the size of
\* its set; so the company count is at most the number of pending
\* entries, and less when two pending entries have the same key.
C30_UnmatchedCompanyIsPendingKeys ==
    Returned =>
        LET info == rc.unmatched_info
        IN  /\ info.unmatched_company_cheques = PendingKeys
            /\ info.company_cheques_without_bank_clearance
                  = Cardinality(info.unmatched_company_cheques)
            /\ info.bank_cheques_without_company_record
                  = Cardinality(info.unmatched_bank_cheques)
            /\ info.company_cheques_without_bank_clearance <= Len(rc.pending)
            /\ (\E m, n \in DOMAIN rc.pending :
                    /\ m # n
                    /\ NormalizeKey(rc.pending[m].cheque_number)
                          = NormalizeKey(rc.pending[n].cheque_number))
                  => info.company_cheques_without_bank_clearance
                        < Len(rc.pending)

\* a key that is in the unmatched-company set for a pending record written
\* with blanks and lower case, while another record of that key is cashed
C30_Witness ==
    /\ Returned
    /\ Len(rc.cashed) = 1 /\ Len(rc.pending) = 1
    /\ rc.pending[1].cheque_number = chq1
    /\ NormalizeKey(rc.cashed[1].company_cheque_number) = CHQ1
    /\ rc.unmatched_info.unmatched_company_cheques = {CHQ1}
    /\ rc.unmatched_info.unmatched_bank_cheques = {}

=============================================================================
